---- MODULE Spec2Model ----
(***************************************************************************)
(* Model of the Instagram assistant: the keyword command classifier        *)
(* (AIAssistant.process_command), the bot orchestrator and account         *)
(* adapter (InstagramBot), the content generator, and the Streamlit        *)
(* handlers that drive them (StreamlitInstagramBot).                       *)
(*                                                                         *)
(* Text is a sequence of one-character strings, so that substring tests,   *)
(* str.split, str.replace, str.strip and str.lower are computed the way    *)
(* Python computes them.                                                   *)
(***************************************************************************)
EXTENDS Integers, Sequences, FiniteSets, TLC

\* ------------------------------------------------------------------ bounds
\* Number of words an input sentence is assembled from.
MaxPieces == 3
\* Number of temporary image files the model lets generate_image create.
MaxTmp == 3

\* ------------------------------------------------------------- Python str
\* str.lower on the letters the inputs use.
LowerChar(c) ==
  CASE c = "L" -> "l" [] c = "I" -> "i" [] c = "K" -> "k" [] c = "E" -> "e"
    [] c = "T" -> "t" [] c = "O" -> "o" [] OTHER -> c

lower(s) == [i \in 1..Len(s) |-> LowerChar(s[i])]

\* sub occurs in s at position i.
StartsAt(s, sub, i) ==
  /\ i >= 1
  /\ i + Len(sub) - 1 <= Len(s)
  /\ \A j \in 1..Len(sub) : s[i + j - 1] = sub[j]

\* The test `sub in s`.
Contains(s, sub) == \E i \in 1..Len(s) : StartsAt(s, sub, i)

\* str.find, 1-based; 0 when sub does not occur.
Find(s, sub) ==
  LET occ == {i \in 1..Len(s) : StartsAt(s, sub, i)} IN
  IF occ = {} THEN 0
  ELSE CHOOSE i \in occ : \A k \in occ : i <= k

\* s.split(sub, 1): one part when sub does not occur, two otherwise.
split(s, sub) ==
  LET i == Find(s, sub) IN
  IF i = 0 THEN <<s>>
  ELSE <<SubSeq(s, 1, i - 1), SubSeq(s, i + Len(sub), Len(s))>>

\* s.replace(sub, ""): every non-overlapping occurrence, left to right.
RECURSIVE remove(_, _)
remove(s, sub) ==
  LET i == Find(s, sub) IN
  IF i = 0 THEN s
  ELSE SubSeq(s, 1, i - 1) \o remove(SubSeq(s, i + Len(sub), Len(s)), sub)

\* s.strip()
strip(s) ==
  LET keep == {i \in 1..Len(s) : s[i] # " "} IN
  IF keep = {} THEN <<>>
  ELSE LET lo == CHOOSE i \in keep : \A k \in keep : i <= k
           hi == CHOOSE i \in keep : \A k \in keep : i >= k
       IN SubSeq(s, lo, hi)

\* ---------------------------------------------------------------- keywords
K_send     == <<"s", "e", "n", "d">>
K_to       == <<"t", "o">>
K_post     == <<"p", "o", "s", "t">>
K_create   == <<"c", "r", "e", "a", "t", "e">>
K_like     == <<"l", "i", "k", "e">>
K_comment  == <<"c", "o", "m", "m", "e", "n", "t">>
K_on       == <<"o", "n">>
K_follow   == <<"f", "o", "l", "l", "o", "w">>
K_unfollow == <<"u", "n", "f", "o", "l", "l", "o", "w">>

\* ------------------------------------------------------------------ inputs
\* The words input sentences are assembled from: the rule keywords (some in
\* upper case), the prefix "un", two argument words and the blank.
Pieces ==
  { <<" ">>,
    K_send \o <<" ">>,
    K_to \o <<" ">>,
    <<"T", "O", " ">>,
    K_post \o <<" ">>,
    K_create \o <<" ">>,
    K_like \o <<" ">>,
    <<"L", "I", "K", "E", " ">>,
    K_comment \o <<" ">>,
    K_on \o <<" ">>,
    K_follow \o <<" ">>,
    <<"u", "n">>,
    <<"b", "o", "b">>,
    <<"h", "i", " ">> }

RECURSIVE Concat(_)
Concat(ws) == IF ws = <<>> THEN <<>> ELSE Head(ws) \o Concat(Tail(ws))

Inputs ==
  UNION { { Concat(ws) : ws \in [1..n -> Pieces] } : n \in 0..MaxPieces }

\* ------------------------------------------------------------ return values
\* Python's None, an exception leaving a block, and the returned dict.
None   == [tag |-> "None"]
Raised == [tag |-> "Raised"]
Intent(a, d) == [tag |-> "Intent", action |-> a, details |-> d]

\* `try: body  except Exception: return None`
CatchMissing(body) == body
Catch(body) == IF body = Raised THEN None ELSE body

\* ---------------------------------------------- AIAssistant.process_command
message_rule(prompt) ==
  LET parts == split(prompt, K_to) IN
  IF Len(parts) < 2 THEN Raised      \* parts[1]: IndexError
  ELSE Intent("message",
              [username |-> strip(parts[2]),
               message  |-> strip(remove(parts[1], K_send))])

post_rule(prompt) ==
  Intent("post", [caption |-> prompt, image_prompt |-> prompt])

like_rule(prompt) ==
  LET parts == split(prompt, K_like) IN
  IF Len(parts) < 2 THEN Raised
  ELSE Intent("like", [post_url |-> strip(parts[2])])

comment_rule(prompt) ==
  LET outer == split(prompt, K_comment) IN
  IF Len(outer) < 2 THEN Raised
  ELSE LET parts == split(strip(outer[2]), K_on) IN
       IF Len(parts) < 2 THEN Raised
       ELSE Intent("comment",
                   [post_url     |-> strip(parts[2]),
                    comment_text |-> strip(parts[1])])

follow_rule(prompt) ==
  LET parts == split(prompt, K_follow) IN
  IF Len(parts) < 2 THEN Raised
  ELSE Intent("follow", [username |-> strip(parts[2])])

unfollow_rule(prompt) ==
  LET parts == split(prompt, K_unfollow) IN
  IF Len(parts) < 2 THEN Raised
  ELSE Intent("unfollow", [username |-> strip(parts[2])])

process_command(prompt) ==
  LET command_lower == lower(prompt) IN
  Catch(
    IF Contains(command_lower, K_send) /\ Contains(command_lower, K_to)
      THEN Catch(message_rule(prompt))
    ELSE IF Contains(command_lower, K_post) \/ Contains(command_lower, K_create)
      THEN post_rule(prompt)
    ELSE IF Contains(command_lower, K_like)
      THEN Catch(like_rule(prompt))
    ELSE IF Contains(command_lower, K_comment)
      THEN Catch(comment_rule(prompt))
    ELSE IF Contains(command_lower, K_follow)
      THEN Catch(follow_rule(prompt))
    ELSE IF Contains(command_lower, K_unfollow)
      THEN Catch(unfollow_rule(prompt))
    ELSE None)

\* ------------------------------------------------------------ Python values
Bool(b)  == [tag |-> "Bool", val |-> b]
Str(s)   == [tag |-> "Str", val |-> s]
Path(i)  == [tag |-> "Path", id |-> i]
Tuple(s, p, c) == [tag |-> "Tuple", success |-> s, image_path |-> p, caption |-> c]

\* Python truthiness of the values above.
truthy(v) ==
  CASE v.tag = "None" -> FALSE
    [] v.tag = "Bool" -> v.val
    [] v.tag = "Str"  -> v.val # ""
    [] OTHER          -> TRUE

Users  == {"alice", "bob"}
Topics == {"sunset"}

\* ------------------------------------------------------------------- state
VARIABLES
  prompt,             \* the sentence given to the classifier
  action_data,        \* what AIAssistant.process_command returned
  nc_ret,             \* what InstagramBot.process_natural_command returned
  cpc,                \* "idle", "input", "classified", "executed"
  session_file,       \* session.json
  settings_file,      \* instagram_settings.json
  bot_logged_in,      \* InstagramBot.logged_in
  bot_username,       \* InstagramBot.username
  st_logged_in,       \* st.session_state.logged_in
  generated_content,  \* st.session_state.generated_content
  st_prompt,          \* st.session_state.prompt
  tmpfiles,           \* temporary image files that exist on disk
  next_tmp,           \* number of temporary files created so far
  calls,              \* external calls made by the last create_ai_post
  last,               \* the last handler run and what the bot returned to it
  ui_fault            \* the calls whose exception the UI code caught

cvars == <<prompt, action_data, nc_ret, cpc>>
svars == <<session_file, settings_file, bot_logged_in, bot_username, st_logged_in>>
pvars == <<generated_content, st_prompt, tmpfiles, next_tmp, calls>>
vars  == <<cvars, svars, pvars, last, ui_fault>>

\* --------------------------------------------------------- ContentGenerator
\* generate_content: the backend answers with both fields, with an empty
\* caption, or the call or the JSON parse fails.
ContentOutcomes == {"ok", "empty_caption", "fail"}

generate_content(o) ==
  CASE o = "ok"            -> [caption |-> Str("cap"), image_prompt |-> Str("img")]
    [] o = "empty_caption" -> [caption |-> Str(""), image_prompt |-> Str("img")]
    [] OTHER               -> [caption |-> None, image_prompt |-> None]

\* generate_image: the download fails before a file is created, the write
\* into the created file fails, or the file is written.
ImageOutcomes == {"ok", "request_fails", "write_fails"}

generate_image(o, files, n) ==
  CASE o = "ok" ->
         [ret |-> Path(n + 1), files |-> files \cup {n + 1}, n |-> n + 1]
    [] o = "write_fails" ->
         [ret |-> None, files |-> files \cup {n + 1}, n |-> n + 1]
    [] OTHER ->
         [ret |-> None, files |-> files, n |-> n]

\* ------------------------------------------------ InstagramBot.create_ai_post
\* No early return after a failed generate_content: the image is generated
\* all the same.
create_ai_post_NoEarlyReturn(gc, gi, files, n) ==
  LET content == generate_content(gc)
      img == generate_image(gi, files, n)
  IN
  IF ~truthy(content.caption) \/ ~truthy(content.image_prompt) \/ ~truthy(img.ret)
    THEN [ret |-> Tuple(FALSE, None, None), files |-> img.files, n |-> img.n,
          calls |-> <<"generate_content", "generate_image">>]
  ELSE [ret |-> Tuple(TRUE, img.ret, content.caption),
        files |-> img.files, n |-> img.n,
        calls |-> <<"generate_content", "generate_image">>]

create_ai_post(gc, gi, files, n) ==
  LET content == generate_content(gc) IN
  IF ~truthy(content.caption) \/ ~truthy(content.image_prompt)
    THEN [ret |-> Tuple(FALSE, None, None), files |-> files, n |-> n,
          calls |-> <<"generate_content">>]
  ELSE LET img == generate_image(gi, files, n) IN
       IF ~truthy(img.ret)
         THEN [ret |-> Tuple(FALSE, None, None), files |-> img.files, n |-> img.n,
               calls |-> <<"generate_content", "generate_image">>]
       ELSE [ret |-> Tuple(TRUE, img.ret, content.caption),
             files |-> img.files, n |-> img.n,
             calls |-> <<"generate_content", "generate_image">>]

\* --------------------------------------------------- account adapter methods
\* Each wraps its client calls in try/except: True, or False when one raises.
ClientOutcomes == {"ok", "raises"}

send_dm(o)         == IF o = "ok" THEN Bool(TRUE) ELSE Bool(FALSE)
like_post(o)       == IF o = "ok" THEN Bool(TRUE) ELSE Bool(FALSE)
comment_on_post(o) == IF o = "ok" THEN Bool(TRUE) ELSE Bool(FALSE)
follow_user(o)     == IF o = "ok" THEN Bool(TRUE) ELSE Bool(FALSE)
unfollow_user(o)   == IF o = "ok" THEN Bool(TRUE) ELSE Bool(FALSE)

\* ------------------------------------------- InstagramBot.process_natural_command
\* Lines 255-282, given what process_command returned at line 253.
process_natural_command(data, co, gc, gi, files, n, oldcalls) ==
  LET same(r) == [ret |-> r, files |-> files, n |-> n, calls |-> oldcalls] IN
  IF data = Raised THEN same(Bool(FALSE))        \* the outer except
  ELSE IF ~truthy(data) THEN same(Bool(FALSE))
  ELSE IF data.action = "post"
    THEN LET r == create_ai_post(gc, gi, files, n) IN
         [ret |-> r.ret, files |-> r.files, n |-> r.n, calls |-> r.calls]
  ELSE IF data.action = "message"  THEN same(send_dm(co))
  ELSE IF data.action = "like"     THEN same(like_post(co))
  ELSE IF data.action = "comment"  THEN same(comment_on_post(co))
  ELSE IF data.action = "follow"   THEN same(follow_user(co))
  ELSE IF data.action = "unfollow" THEN same(unfollow_user(co))
  ELSE same(Bool(FALSE))

\* ------------------------------------------------------------ session store
Absent    == [tag |-> "Absent"]
Malformed == [tag |-> "Malformed"]
SessionData(u, l) == [tag |-> "Data", username |-> u, logged_in |-> l]
Settings(u)       == [tag |-> "Settings", owner |-> u]

\* The bot's fields and the two files it owns, as one value.
BotState(li, un, sf, tf) ==
  [logged_in |-> li, username |-> un, session_file |-> sf, settings_file |-> tf]

\* InstagramBot.__init__
NewBot(sf, tf) == BotState(FALSE, None, sf, tf)

\* save_session: both writes succeed; dump_settings raises; open() of the
\* session file raises; json.dump raises after open() truncated the file.
SaveOutcomes == {"ok", "dump_fails", "open_fails", "write_fails"}

save_session(b, o) ==
  CASE o = "ok" ->
         [b EXCEPT !.settings_file = Settings(b.username),
                   !.session_file  = SessionData(b.username, b.logged_in)]
    [] o = "open_fails" ->
         [b EXCEPT !.settings_file = Settings(b.username)]
    [] o = "write_fails" ->
         [b EXCEPT !.settings_file = Settings(b.username),
                   !.session_file  = Malformed]
    [] OTHER -> b

\* load_session: the liveness probe succeeds; the probe raises; load_settings
\* raises.
LoadOutcomes == {"ok", "probe_fails", "settings_error"}

load_session(b, o) ==
  IF b.settings_file = Absent \/ b.session_file = Absent
    THEN [ret |-> FALSE, b |-> b, how |-> "absent"]
  ELSE IF o = "settings_error" \/ b.session_file = Malformed
    THEN [ret |-> FALSE, b |-> b, how |-> "error"]
  ELSE LET b2 == [b EXCEPT !.username  = b.session_file.username,
                           !.logged_in = b.session_file.logged_in]
       IN IF o = "ok"
            THEN [ret |-> TRUE, b |-> b2, how |-> "restored"]
            ELSE [ret |-> FALSE, b |-> b2, how |-> "probe_failed"]

\* login that forgets to record the supplied username.
login_NoUsername(b, username, lo, co, so) ==
  LET l == load_session(b, lo) IN
  IF l.ret THEN [ret |-> Bool(TRUE), b |-> l.b, how |-> l.how]
  ELSE IF co = "raises" THEN [ret |-> Bool(FALSE), b |-> l.b, how |-> l.how]
  ELSE [ret |-> Bool(TRUE),
        b   |-> save_session([l.b EXCEPT !.logged_in = TRUE], so),
        how |-> l.how]

\* login
login(b, username, lo, co, so) ==
  LET l == load_session(b, lo) IN
  IF l.ret THEN [ret |-> Bool(TRUE), b |-> l.b, how |-> l.how]
  ELSE IF co = "raises" THEN [ret |-> Bool(FALSE), b |-> l.b, how |-> l.how]
  ELSE [ret |-> Bool(TRUE),
        b   |-> save_session([l.b EXCEPT !.logged_in = TRUE,
                                         !.username  = Str(username)], so),
        how |-> l.how]

\* logout: everything succeeds; client.logout() raises; os.remove raises on
\* the first file that exists.
LogoutOutcomes == {"ok", "logout_raises", "remove_raises"}

logout(b, o) ==
  CASE o = "logout_raises" -> b
    [] o = "remove_raises" /\ b.session_file # Absent ->
         [b EXCEPT !.logged_in = FALSE, !.username = None]
    [] o = "remove_raises" /\ b.session_file = Absent /\ b.settings_file # Absent ->
         [b EXCEPT !.logged_in = FALSE, !.username = None]
    [] OTHER ->
         [b EXCEPT !.logged_in = FALSE, !.username = None,
                   !.session_file = Absent, !.settings_file = Absent]

\* ----------------------------------------------------------------- initial
Last(op, ret, user, how) == [op |-> op, ret |-> ret, user |-> user, how |-> how]

AppInit ==
  /\ session_file = Absent
  /\ settings_file = Absent
  /\ bot_logged_in = FALSE
  /\ bot_username = None
  /\ st_logged_in = FALSE
  /\ generated_content = None
  /\ st_prompt = ""
  /\ tmpfiles = {}
  /\ next_tmp = 0
  /\ calls = <<>>
  /\ last = Last("none", None, None, "none")
  /\ ui_fault = {}

\* The web application: no sentence is being classified.
Init ==
  /\ prompt = <<>>
  /\ action_data = None
  /\ nc_ret = None
  /\ cpc = "idle"
  /\ AppInit

\* The classifier and the orchestrator applied to one input sentence.
InitClassify ==
  /\ prompt \in Inputs
  /\ action_data = None
  /\ nc_ret = None
  /\ cpc = "input"
  /\ AppInit

\* ------------------------------------------------- classifier, orchestrator
\* AIAssistant.process_command called on the sentence.
Classify ==
  /\ cpc = "input"
  /\ action_data' = process_command(prompt)
  /\ cpc' = "classified"
  /\ UNCHANGED <<prompt, nc_ret, svars, pvars, last, ui_fault>>

\* InstagramBot.process_natural_command called on the sentence.
ProcessNaturalCommand ==
  /\ cpc = "input"
  /\ \E data \in {process_command(prompt)} :
     /\ action_data' = data
     /\ \E co \in ClientOutcomes, gc \in ContentOutcomes, gi \in ImageOutcomes :
          LET r == process_natural_command(data, co, gc, gi, tmpfiles, next_tmp, calls)
          IN /\ nc_ret' = r.ret
             /\ tmpfiles' = r.files
             /\ next_tmp' = r.n
             /\ calls' = r.calls
  /\ cpc' = "executed"
  /\ UNCHANGED <<prompt, svars, generated_content, st_prompt, last, ui_fault>>

\* ------------------------------------------------------ Streamlit handlers
Bot == BotState(bot_logged_in, bot_username, session_file, settings_file)

SetBot(b) ==
  /\ bot_logged_in' = b.logged_in
  /\ bot_username' = b.username
  /\ session_file' = b.session_file
  /\ settings_file' = b.settings_file

\* main() for a new browser session: a new StreamlitInstagramBot and an
\* empty st.session_state; the files on disk stay.
Restart ==
  /\ SetBot(NewBot(session_file, settings_file))
  /\ st_logged_in' = FALSE
  /\ generated_content' = None
  /\ st_prompt' = ""
  /\ last' = Last("restart", None, None, "none")
  /\ UNCHANGED <<cvars, tmpfiles, next_tmp, calls, ui_fault>>

\* handle_login, the login form submitted.
HandleLogin ==
  /\ ~st_logged_in
  /\ \E u \in Users, lo \in LoadOutcomes, co \in ClientOutcomes, so \in SaveOutcomes :
       LET r == login(Bot, u, lo, co, so) IN
       /\ SetBot(r.b)
       /\ st_logged_in' = (IF truthy(r.ret) THEN TRUE ELSE st_logged_in)
       /\ last' = Last("login", r.ret, Str(u), r.how)
  /\ UNCHANGED <<cvars, pvars, ui_fault>>

\* handle_login's Logout button: handle_logout.
HandleLogout ==
  /\ st_logged_in
  /\ \E o \in LogoutOutcomes :
       /\ SetBot(logout(Bot, o))
       /\ last' = Last("logout", None, None, o)
  /\ st_logged_in' = FALSE
  /\ UNCHANGED <<cvars, pvars, ui_fault>>

Content(p, c) == [tag |-> "Content", image_path |-> p, caption |-> c]

\* handle_posting, "Generate Post" pressed with a prompt typed in.
GeneratePost ==
  /\ st_logged_in
  /\ next_tmp < MaxTmp
  /\ \E topic \in Topics, gc \in ContentOutcomes, gi \in ImageOutcomes :
       LET r == create_ai_post(gc, gi, tmpfiles, next_tmp) IN
       /\ st_prompt' = topic
       /\ tmpfiles' = r.files
       /\ next_tmp' = r.n
       /\ calls' = r.calls
       /\ generated_content' =
            (IF r.ret.success /\ truthy(r.ret.image_path) /\ truthy(r.ret.caption)
               THEN Content(r.ret.image_path, r.ret.caption)
               ELSE generated_content)
       /\ last' = Last("generate", r.ret, None, gc)
  /\ UNCHANGED <<cvars, svars, ui_fault>>

\* handle_posting, "Post Content" pressed on the preview: photo_upload is
\* called from the handler itself, inside its own try/except.
PostOutcomes == {"ok", "upload_raises", "unlink_raises"}

\* The image unlinked before photo_upload is called: a failed upload leaves
\* the preview pending without its file.
PostContentUnlinkFirst ==
  /\ st_logged_in
  /\ generated_content # None
  /\ \E o \in PostOutcomes :
       IF o = "ok"
         THEN /\ tmpfiles' = tmpfiles \ {generated_content.image_path.id}
              /\ generated_content' = None
              /\ st_prompt' = ""
              /\ last' = Last("post", None, None, o)
              /\ UNCHANGED ui_fault
         ELSE /\ ui_fault' = ui_fault \cup
                   {IF o = "upload_raises" THEN "photo_upload" ELSE "os.unlink"}
              /\ last' = Last("post", None, None, o)
              /\ tmpfiles' = (IF o = "upload_raises"
                                THEN tmpfiles \ {generated_content.image_path.id}
                                ELSE tmpfiles)
              /\ UNCHANGED <<generated_content, st_prompt>>
  /\ UNCHANGED <<cvars, svars, next_tmp, calls>>

PostContent ==
  /\ st_logged_in
  /\ generated_content # None
  /\ \E o \in PostOutcomes :
       IF o = "ok"
         THEN /\ tmpfiles' = tmpfiles \ {generated_content.image_path.id}
              /\ generated_content' = None
              /\ st_prompt' = ""
              /\ last' = Last("post", None, None, o)
              /\ UNCHANGED ui_fault
         ELSE /\ ui_fault' = ui_fault \cup
                   {IF o = "upload_raises" THEN "photo_upload" ELSE "os.unlink"}
              /\ last' = Last("post", None, None, o)
              /\ UNCHANGED <<generated_content, st_prompt, tmpfiles>>
  /\ UNCHANGED <<cvars, svars, next_tmp, calls>>

\* handle_posting, "Cancel" pressed on the preview.
CancelOutcomes == {"ok", "unlink_raises"}

Cancel ==
  /\ st_logged_in
  /\ generated_content # None
  /\ \E o \in CancelOutcomes :
       IF o = "ok"
         THEN /\ tmpfiles' = tmpfiles \ {generated_content.image_path.id}
              /\ generated_content' = None
              /\ st_prompt' = ""
              /\ last' = Last("cancel", None, None, o)
              /\ UNCHANGED ui_fault
         ELSE /\ ui_fault' = ui_fault \cup {"os.unlink"}
              /\ last' = Last("cancel", None, None, o)
              /\ UNCHANGED <<generated_content, st_prompt, tmpfiles>>
  /\ UNCHANGED <<cvars, svars, next_tmp, calls>>

\* handle_messaging, the direct-message form submitted.
SendMessage ==
  /\ st_logged_in
  /\ \E o \in ClientOutcomes : last' = Last("send_dm", send_dm(o), None, "none")
  /\ UNCHANGED <<cvars, svars, pvars, ui_fault>>

\* handle_interactions, the like form submitted.
LikePost ==
  /\ st_logged_in
  /\ \E o \in ClientOutcomes : last' = Last("like_post", like_post(o), None, "none")
  /\ UNCHANGED <<cvars, svars, pvars, ui_fault>>

\* ----------------------------------------------------------- specifications
Next ==
  \/ Restart
  \/ HandleLogin
  \/ HandleLogout
  \/ GeneratePost
  \/ PostContent
  \/ Cancel
  \/ SendMessage
  \/ LikePost

Spec == Init /\ [][Next]_vars

NextClassify ==
  \/ Classify
  \/ ProcessNaturalCommand

SpecClassify == InitClassify /\ [][NextClassify]_vars

\* ------------------------------------------------------------------ claims
\* What the specification's rules say about a sentence, read case-insensitively.
HasWord(p, kw) == Contains(lower(p), kw)
MatchesMessage(p) == HasWord(p, K_send) /\ HasWord(p, K_to)
MatchesPost(p)    == HasWord(p, K_post) \/ HasWord(p, K_create)
MatchesAbove(p)   ==
  MatchesMessage(p) \/ MatchesPost(p) \/ HasWord(p, K_like) \/ HasWord(p, K_comment)
NoKeyword(p) ==
  ~(MatchesAbove(p) \/ HasWord(p, K_follow) \/ HasWord(p, K_unfollow))

\* The text before and after the first occurrence of a keyword.
Before(p, kw) == SubSeq(p, 1, Find(lower(p), kw) - 1)
After(p, kw)  == SubSeq(p, Find(lower(p), kw) + Len(kw), Len(p))

Classified == cpc \in {"classified", "executed"}

\* C1: a sentence that contains "unfollow" and matches none of the message,
\* post, like and comment rules is classified as unfollow, with the trimmed
\* text after "unfollow" as username; the follow rule does not fire on it.
C1_UnfollowIntent ==
  (Classified /\ HasWord(prompt, K_unfollow) /\ ~MatchesAbove(prompt)) =>
    /\ action_data.tag = "Intent"
    /\ action_data.action = "unfollow"
    /\ action_data.details.username = strip(After(prompt, K_unfollow))

\* C2: process_command is total. It returns an intent with one of the six
\* actions or nothing, never an exception; a sentence without any keyword
\* gives nothing; "send" without "to" never gives a message intent and gives
\* nothing unless another rule's keyword is present; a sentence that reaches
\* the comment rule without "on" gives nothing.
C2_Total ==
  Classified =>
    /\ action_data.tag \in {"None", "Intent"}
    /\ action_data.tag = "Intent" =>
         action_data.action \in
           {"message", "post", "like", "comment", "follow", "unfollow"}
    /\ NoKeyword(prompt) => action_data = None
    /\ (HasWord(prompt, K_send) /\ ~HasWord(prompt, K_to)) =>
         /\ ~(action_data.tag = "Intent" /\ action_data.action = "message")
         /\ ~( \/ MatchesPost(prompt)
               \/ HasWord(prompt, K_like)
               \/ HasWord(prompt, K_comment)
               \/ HasWord(prompt, K_follow) ) => action_data = None
    /\ ( /\ HasWord(prompt, K_comment)
         /\ ~MatchesMessage(prompt)
         /\ ~MatchesPost(prompt)
         /\ ~HasWord(prompt, K_like)
         /\ ~HasWord(prompt, K_on) ) => action_data = None

\* C2 witness: "comment hi " (the comment keyword, no "on") was classified and
\* gave nothing.
C2_Witness ==
  /\ cpc = "classified"
  /\ prompt = K_comment \o <<" ", "h", "i", " ">>
  /\ action_data = None

\* C3: the letter case of the keywords does not change the action or the
\* captured parameters: a sentence is classified like its lower-case form
\* (a post intent carries the sentence itself, so only its action is compared).
SameIntent(x, y) ==
  /\ x.tag = y.tag
  /\ x.tag = "Intent" =>
       /\ x.action = y.action
       /\ x.action # "post" =>
            /\ DOMAIN x.details = DOMAIN y.details
            /\ \A f \in DOMAIN x.details : lower(x.details[f]) = lower(y.details[f])

C3_CaseInsensitive ==
  Classified => SameIntent(action_data, process_command(lower(prompt)))

\* C4: a sentence matched by the message rule is split once at the first
\* "to": username is the trimmed text after it, message the trimmed text
\* before it with "send" removed.
C4_MessageSplit ==
  (Classified /\ MatchesMessage(prompt)) =>
    /\ action_data.tag = "Intent"
    /\ action_data.action = "message"
    /\ action_data.details.username = strip(After(prompt, K_to))
    /\ action_data.details.message = strip(remove(Before(prompt, K_to), K_send))

\* C5: process_natural_command returns a boolean for every sentence and
\* every classified action.
C5_ReturnsBool ==
  cpc = "executed" => nc_ret.tag = "Bool"

\* C6: once logout has returned, whether the remote logout call succeeded or
\* raised, both backing files are absent and the bot holds no session.
C6_LogoutClears ==
  (last.op = "logout" /\ last.how \in {"ok", "logout_raises"}) =>
    /\ session_file = Absent
    /\ settings_file = Absent
    /\ ~bot_logged_in
    /\ bot_username = None

\* C7: when login returns success through a fresh network login, both
\* backing files exist and the session file records the supplied username
\* with logged_in true.
C7_FreshLoginPersisted ==
  (last.op = "login" /\ last.ret = Bool(TRUE) /\ last.how # "restored") =>
    /\ settings_file # Absent
    /\ session_file = SessionData(last.user, TRUE)

\* C8: when load_session found both files and the liveness probe failed, and
\* the fresh login that followed failed too, the stored session is deleted
\* and the bot holds no session.
C8_ProbeFailureInvalidates ==
  (last.op = "login" /\ last.how = "probe_failed" /\ last.ret = Bool(FALSE)) =>
    /\ session_file = Absent
    /\ settings_file = Absent
    /\ ~bot_logged_in
    /\ bot_username = None

\* C9: once the generate/preview flow has ended (a generate, publish or
\* cancel step has run and no content is pending), no temporary image file
\* exists.
C9_TempFilesDeleted ==
  (last.op \in {"generate", "post", "cancel"} /\ generated_content = None) =>
    tmpfiles = {}

\* C10: every account action and generation call hands the UI a boolean, a
\* tuple of sentinels or nothing, and the UI code never catches an exception
\* raised by a call into the account client.
C10_NoRawFault ==
  /\ last.ret.tag \in {"None", "Bool", "Tuple"}
  /\ "photo_upload" \notin ui_fault

\* C11: whenever a generated content is pending (and so displayed as a
\* preview), the temporary file it references exists: no handler deletes the
\* file and leaves the content pending.
C11_PendingFileExists ==
  generated_content # None => generated_content.image_path.id \in tmpfiles

\* C11 witness: a publish attempt failed, the content is still pending and
\* its file is still there.
C11_Witness ==
  /\ last.op = "post"
  /\ last.how = "upload_raises"
  /\ generated_content # None
  /\ generated_content.image_path.id \in tmpfiles

\* C12: create_ai_post calls generate_content, then generate_image; after a
\* failed (or empty) caption generation it returns (False, None, None) without
\* calling generate_image; it returns (True, path, caption) only when both
\* succeeded, the path being the file just created; it never calls
\* photo_upload.
C12_CreateAiPost ==
  last.op = "generate" =>
    /\ \A i \in 1..Len(calls) : calls[i] # "photo_upload"
    /\ last.how # "ok" =>
         /\ calls = <<"generate_content">>
         /\ last.ret = Tuple(FALSE, None, None)
    /\ last.how = "ok" => calls = <<"generate_content", "generate_image">>
    /\ last.ret.success =>
         /\ last.how = "ok"
         /\ last.ret.image_path = Path(next_tmp)
         /\ next_tmp \in tmpfiles
         /\ last.ret.caption = Str("cap")
    /\ ~last.ret.success => last.ret = Tuple(FALSE, None, None)

\* C12 witness: caption generation failed and create_ai_post returned the
\* failure triple after that single call.
C12_Witness ==
  /\ last.op = "generate"
  /\ last.how = "fail"
  /\ calls = <<"generate_content">>
  /\ last.ret = Tuple(FALSE, None, None)

\* C13 as stated: whenever login returns success, the bot's username is the
\* username passed to login, also when the session was restored.
C13_SessionOfSuppliedUser ==
  (last.op = "login" /\ last.ret = Bool(TRUE)) => bot_username = last.user

\* C13 amended: after a successful fresh login the bot's username is the
\* supplied one; after a restore it is the username recorded in session.json.
C13_SessionOwner ==
  (last.op = "login" /\ last.ret = Bool(TRUE)) =>
    /\ last.how # "restored" => bot_username = last.user
    /\ last.how = "restored" =>
         /\ session_file.tag = "Data"
         /\ bot_username = session_file.username

\* C13 witness: login succeeded by restoring a stored session of another
\* user than the one supplied.
C13_Witness ==
  /\ last.op = "login"
  /\ last.ret = Bool(TRUE)
  /\ last.how = "restored"
  /\ bot_username = session_file.username
  /\ bot_username # last.user

====
